---- MODULE Spec2Model ----
(***************************************************************************)
(* A model of the space-weather widget: the NOAA feed parsers of           *)
(* space_weather.py (parse_solar_wind, parse_kp, parse_scales,             *)
(* parse_alerts, aurora_visibility), the aggregator fetch_all, the cache   *)
(* file (write_cache / load_cache), and the freshness policy and route     *)
(* handlers of app.py (cache_is_stale, /space, /space/refresh).            *)
(*                                                                         *)
(* Numbers.  A JSON value that float() accepts is Num(q), the number q/4:  *)
(* quarters are exact binary fractions, so Python's round() (round half to *)
(* even on the exact value) is modelled exactly.  Rounded results are in   *)
(* the unit of the rounding: tenths after round(x, 1), units after         *)
(* round(x, 0).                                                            *)
(***************************************************************************)
EXTENDS Integers, Sequences, FiniteSets, TLC

VARIABLES
    arg,        \* the argument of a single function call
    ret,        \* its result, Pending before the call
    now,        \* the UTC clock, in minutes
    cacheFile,  \* the contents of CACHE_FILE
    last        \* what the last handler or script run did

vars == <<arg, ret, now, cacheFile, last>>

\* ------------------------------------------------------------ JSON values

Num(q)  == [t |-> "num", v |-> q]
Str(i)  == [t |-> "str", v |-> i]      \* text that is no number (i names it)
Null    == [t |-> "null", v |-> 0]     \* JSON null, Python None

\* An optional endpoint response: fetch_json's None, or the parsed rows.
Absent        == [some |-> FALSE, rows |-> <<>>]
Present(rows) == [some |-> TRUE, rows |-> rows]

\* Python truthiness of a list-or-None response (`if plasma_raw:`).
Truthy(raw) == raw.some /\ Len(raw.rows) > 0

\* float(x): the value, or the exception it raises.
Float(x) ==
    CASE x.t = "num"  -> [exc |-> "none", v |-> x.v]
      [] x.t = "null" -> [exc |-> "TypeError", v |-> 0]
      [] OTHER        -> [exc |-> "ValueError", v |-> 0]

\* float(row[i]) with Python's 0-based i: IndexError on a short row.
FloatAt(row, i) ==
    IF i + 1 > Len(row) THEN [exc |-> "IndexError", v |-> 0]
    ELSE Float(row[i + 1])

\* n/d rounded to an integer, halves to even (d > 0).
RoundHalfEven(n, d) ==
    LET q == n \div d
        r == n % d
    IN  IF 2 * r < d THEN q
        ELSE IF 2 * r > d THEN q + 1
        ELSE IF q % 2 = 0 THEN q ELSE q + 1

\* round(x, 1) of x = q/4, in tenths;  round(x, 0) of x = q/4, in units.
Round1(q) == RoundHalfEven(10 * q, 4)
Round0(q) == RoundHalfEven(q, 4)

\* seq[::step]: the elements at 0-based positions 0, step, 2*step, ...
Stride(seq, step) ==
    [k \in 1..((Len(seq) + step - 1) \div step) |-> seq[(k - 1) * step + 1]]

\* seq[-n:]
LastN(seq, n) ==
    IF Len(seq) <= n THEN seq ELSE SubSeq(seq, Len(seq) - n + 1, Len(seq))

Max(a, b) == IF a >= b THEN a ELSE b

Pending == [done |-> FALSE]

\* ------------------------------------------------------- parse_solar_wind

MaxPts == 60

SolarWindDefault ==
    [speed |-> Null, density |-> Null, bz |-> Null, bt |-> Null,
     timestamp |-> Null, timeseries |-> <<>>]

\* One pass of the try block of the "latest reading" loop on `row`: each
\* assignment takes effect before the next conversion can raise; `brk` is
\* the break.
PlasmaTry(row, st) ==
    LET d == FloatAt(row, 1)
        s == FloatAt(row, 2)
    IN  IF d.exc # "none" THEN st
        ELSE LET r1 == [st.res EXCEPT !.density = Num(Round1(d.v))]
             IN  IF s.exc # "none" THEN [res |-> r1, brk |-> FALSE]
                 ELSE [res |-> [r1 EXCEPT !.speed = Num(Round0(s.v)),
                                          !.timestamp = row[1]],
                       brk |-> TRUE]

\* The same loop without reversed(): the oldest clean row wins.
RECURSIVE PlasmaOldest(_, _, _, _)
PlasmaOldest(rows, lo, hi, st) ==
    IF st.brk \/ lo > hi THEN st
    ELSE IF lo = hi THEN PlasmaTry(rows[lo], st)
    ELSE LET mid == (lo + hi) \div 2
         IN  PlasmaOldest(rows, mid + 1, hi, PlasmaOldest(rows, lo, mid, st))

\* The loop `for row in reversed(plasma_raw[1:])` over the rows at positions
\* hi down to lo, unfolded by halves (the later half first).
RECURSIVE PlasmaLatest(_, _, _, _)
PlasmaLatest(rows, lo, hi, st) ==
    IF st.brk \/ lo > hi THEN st
    ELSE IF lo = hi THEN PlasmaTry(rows[lo], st)
    ELSE LET mid == (lo + hi) \div 2
         IN  PlasmaLatest(rows, lo, mid, PlasmaLatest(rows, mid + 1, hi, st))

\* What the timeseries loop appends for `row`.
SeriesPoint(row) ==
    LET s == FloatAt(row, 2)
    IN  IF s.exc = "none" /\ s.v > 0
        THEN <<[time |-> row[1], speed |-> Num(Round0(s.v))]>>
        ELSE <<>>

\* The timeseries loop `for row in plasma_raw[1:]` over the rows at positions
\* lo to hi, unfolded by halves.
RECURSIVE PlasmaSeries(_, _, _)
PlasmaSeries(rows, lo, hi) ==
    IF lo > hi THEN <<>>
    ELSE IF lo = hi THEN SeriesPoint(rows[lo])
    ELSE LET mid == (lo + hi) \div 2
         IN  PlasmaSeries(rows, lo, mid) \o PlasmaSeries(rows, mid + 1, hi)

\* "Thin to max 60 pts if needed"
Thin(ts) ==
    IF Len(ts) > MaxPts
    THEN Stride(ts, Max(1, Len(ts) \div MaxPts))
    ELSE ts

\* One pass of the try block of the magnetic-field loop on `row`.
MagTry(row, st) ==
    LET z == FloatAt(row, 3)
        t == FloatAt(row, 4)
    IN  IF z.exc # "none" THEN st
        ELSE LET r1 == [st.res EXCEPT !.bz = Num(Round1(z.v))]
             IN  IF t.exc # "none" THEN [res |-> r1, brk |-> FALSE]
                 ELSE [res |-> [r1 EXCEPT !.bt = Num(Round1(t.v))], brk |-> TRUE]

\* The loop `for row in reversed(mag_raw[1:])`, unfolded by halves.
RECURSIVE MagLatest(_, _, _, _)
MagLatest(rows, lo, hi, st) ==
    IF st.brk \/ lo > hi THEN st
    ELSE IF lo = hi THEN MagTry(rows[lo], st)
    ELSE LET mid == (lo + hi) \div 2
         IN  MagLatest(rows, lo, mid, MagLatest(rows, mid + 1, hi, st))

PlasmaPart(plasma_raw, res) ==
    IF Truthy(plasma_raw)
    THEN LET rows == plasma_raw.rows
             r1   == PlasmaLatest(rows, 2, Len(rows), [res |-> res, brk |-> FALSE]).res
         IN  [r1 EXCEPT !.timeseries =
                 Thin(r1.timeseries \o PlasmaSeries(rows, 2, Len(rows)))]
    ELSE res

MagPart(mag_raw, res) ==
    IF Truthy(mag_raw)
    THEN MagLatest(mag_raw.rows, 2, Len(mag_raw.rows), [res |-> res, brk |-> FALSE]).res
    ELSE res

\* parse_solar_wind with the magnetic-field block nested under `if plasma_raw:`.
SolarWindMagUnderPlasma(plasma_raw, mag_raw) ==
    IF Truthy(plasma_raw)
    THEN MagPart(mag_raw, PlasmaPart(plasma_raw, SolarWindDefault))
    ELSE SolarWindDefault

parse_solar_wind(plasma_raw, mag_raw) ==
    MagPart(mag_raw, PlasmaPart(plasma_raw, SolarWindDefault))

\* ------------------------------------------------ parse_solar_wind: inputs

MaxBlocks == 2      \* runs of equal rows in a generated feed
MaxMagRows == 2     \* rows of a generated magnetic-field feed

\* The header row of a NOAA table.
Header == <<Str(0), Str(0), Str(0), Str(0)>>

\* Plasma rows [time, density, speed, temperature]; the time of a generated
\* row is its position i in the table.
PlasmaKinds == {"ok1", "calm", "nodens", "nospeed", "short", "mixed"}

PlasmaRow(kind, i) ==
    CASE kind = "ok1"     -> <<Str(i), Num(21), Num(1650), Num(400000)>>
      [] kind = "calm"    -> <<Str(i), Num(4), Num(0), Null>>
      [] kind = "nodens"  -> <<Str(i), Null, Num(1400), Null>>
      [] kind = "nospeed" -> <<Str(i), Num(30), Null, Null>>
      [] kind = "short"   -> <<Str(i), Num(8)>>
      [] OTHER            -> \* "mixed": clean and malformed rows in turn
            CASE i % 3 = 0 -> <<Str(i), Num(2 * i), Num(1600 + i), Num(400000)>>
              [] i % 3 = 1 -> <<Str(i), Num(3 * i), Str(-1), Null>>
              [] OTHER     -> <<Str(i), Null, Num(1500 + i), Null>>

\* Magnetic-field rows [time, bx, by, bz, bt, lat, lon].
MagKinds == {"ok", "nobt", "nobz", "short"}

MagRow(kind, i) ==
    CASE kind = "ok"   -> <<Str(i), Num(4), Num(-8), Num(-13), Num(27), Num(0), Num(0)>>
      [] kind = "nobt" -> <<Str(i), Num(4), Num(-8), Num(-21), Null, Num(0), Num(0)>>
      [] kind = "nobz" -> <<Str(i), Num(4), Num(-8), Null, Num(33), Num(0), Num(0)>>
      [] OTHER         -> <<Str(i), Num(4), Num(-8), Num(-5)>>

SeqsUpTo(S, n) == UNION {[1..k -> S] : k \in 0..n}

\* Kp rows [time, kp].
KpKinds == {"k1", "k2", "null", "text", "short", "empty", "mixed"}

KpRow(kind, i) ==
    CASE kind = "k1"    -> <<Str(i), Num(9)>>
      [] kind = "k2"    -> <<Str(i), Num(28)>>
      [] kind = "null"  -> <<Str(i), Null>>
      [] kind = "text"  -> <<Str(i), Str(-1)>>
      [] kind = "short" -> <<Str(i)>>
      [] kind = "empty" -> <<>>
      [] OTHER          -> \* "mixed": readable and unreadable rows in turn
            IF i % 2 = 0 THEN <<Str(i), Num(i)>> ELSE <<Str(i), Null>>

FeedRow(feed, kind, i) ==
    IF feed = "kp" THEN KpRow(kind, i) ELSE PlasmaRow(kind, i)

\* The table of `feed` made of the runs `blocks` (each [kind, n]) after `rows`.
RECURSIVE Expand(_, _, _, _)
Expand(feed, blocks, b, rows) ==
    IF b > Len(blocks) THEN rows
    ELSE LET base == Len(rows)
             run  == [k \in 1..blocks[b].n |-> FeedRow(feed, blocks[b].kind, base + k)]
         IN  Expand(feed, blocks, b + 1, rows \o run)

\* The shapes of a generated response: absent, an empty list, or a header
\* followed by up to MaxBlocks runs, each of a length around `limit`.
Shapes(kinds, limit) ==
    {[shape |-> "absent", blocks |-> <<>>], [shape |-> "empty", blocks |-> <<>>]} \cup
    {[shape |-> "table", blocks |-> bs] :
        bs \in SeqsUpTo([kind : kinds, n : {1, limit, limit + 1}], MaxBlocks)}

Table(feed, g) ==
    CASE g.shape = "absent" -> Absent
      [] g.shape = "empty"  -> Present(<<>>)
      [] OTHER              -> Present(Expand(feed, g.blocks, 1, <<Header>>))

MagInputs ==
    {Absent, Present(<<>>)} \cup
    {Present(<<Header>> \o [k \in 1..Len(ks) |-> MagRow(ks[k], k + 1)]) :
        ks \in SeqsUpTo(MagKinds, MaxMagRows)}

PlasmaFew ==
    {Absent, Present(<<Header, PlasmaRow("ok1", 2)>>),
     Present(<<Header, PlasmaRow("nospeed", 2)>>)}

Missing == [kind |-> "missing"]
Idle    == [op |-> "none"]

InitSolarWind ==
    /\ \/ \E g \in Shapes(PlasmaKinds, MaxPts) :
              arg = [plasma |-> Table("plasma", g), mag |-> Absent]
       \/ \E p \in PlasmaFew, m \in MagInputs :
              arg = [plasma |-> p, mag |-> m]
    /\ ret = Pending
    /\ now = 0 /\ cacheFile = Missing /\ last = Idle

CallSolarWind ==
    /\ ~ret.done
    /\ ret' = [done |-> TRUE, val |-> parse_solar_wind(arg.plasma, arg.mag)]
    /\ UNCHANGED <<arg, now, cacheFile, last>>

SpecSolarWind == InitSolarWind /\ [][CallSolarWind]_vars

\* Rows 2..Len of a table (the header excluded), by position.
DataRows(raw) == IF raw.some THEN 2..Len(raw.rows) ELSE {}

MaxOf(S) == CHOOSE m \in S : \A x \in S : x <= m

\* The plasma rows whose density and speed both convert to numbers.
CleanPlasma(raw) ==
    {i \in DataRows(raw) :
        FloatAt(raw.rows[i], 1).exc = "none" /\ FloatAt(raw.rows[i], 2).exc = "none"}

\* The plasma rows with a strictly positive speed.
PositivePlasma(raw) ==
    {i \in DataRows(raw) :
        FloatAt(raw.rows[i], 2).exc = "none" /\ FloatAt(raw.rows[i], 2).v > 0}

\* C1 (as claimed): the timeseries of parse_solar_wind has length <= 60 and is
\* a subsequence, in input order, of the rows with strictly positive speed.
C1_SeriesBounded ==
    ret.done =>
        LET ts == ret.val.timeseries
        IN  /\ Len(ts) <= MaxPts
            /\ \A k \in 1..Len(ts) :
                   /\ ts[k].time.v \in PositivePlasma(arg.plasma)
                   /\ ts[k].speed =
                          Num(Round0(FloatAt(arg.plasma.rows[ts[k].time.v], 2).v))
            /\ \A k \in 1..(Len(ts) - 1) : ts[k].time.v < ts[k + 1].time.v

\* C3: the latest reading (speed, density, timestamp) comes from the last row,
\* by position and header excluded, whose density and speed both convert;
\* the rows after it, which fail to convert, are skipped.
C3_LatestIsNewestClean ==
    (ret.done /\ CleanPlasma(arg.plasma) # {}) =>
        LET row == arg.plasma.rows[MaxOf(CleanPlasma(arg.plasma))]
        IN  /\ ret.val.timestamp = row[1]
            /\ ret.val.density = Num(Round1(row[2].v))
            /\ ret.val.speed = Num(Round0(row[3].v))

\* A clean row followed by malformed rows and preceded by another clean row
\* with other values has been parsed.
C3_Witness ==
    /\ ret.done
    /\ \E i, j \in CleanPlasma(arg.plasma) :
           /\ i < j
           /\ arg.plasma.rows[i][2] # arg.plasma.rows[j][2]
           /\ j = MaxOf(CleanPlasma(arg.plasma))
           /\ j < Len(arg.plasma.rows)
           /\ ret.val.timestamp = Str(j)

\* C10 (as claimed): speed, density and timestamp are all null or all from one
\* plasma row, and bz and bt are both null or both from one magnetic row.
C10_ReadingsFromOneRow ==
    ret.done =>
        LET r == ret.val
        IN  /\ \/ r.speed = Null /\ r.density = Null /\ r.timestamp = Null
               \/ \E i \in CleanPlasma(arg.plasma) :
                      /\ r.timestamp = arg.plasma.rows[i][1]
                      /\ r.density = Num(Round1(arg.plasma.rows[i][2].v))
                      /\ r.speed = Num(Round0(arg.plasma.rows[i][3].v))
            /\ \/ r.bz = Null /\ r.bt = Null
               \/ \E i \in DataRows(arg.mag) :
                      /\ FloatAt(arg.mag.rows[i], 3).exc = "none"
                      /\ FloatAt(arg.mag.rows[i], 4).exc = "none"
                      /\ r.bz = Num(Round1(arg.mag.rows[i][4].v))
                      /\ r.bt = Num(Round1(arg.mag.rows[i][5].v))

\* --------------------------------------------------------------- parse_kp

MaxHist == 24

KpDefault == [current |-> Null, history |-> <<>>]

\* What the readings loop appends for `row`: row[0] and float(row[1]) are
\* both evaluated inside the try block.
KpReading(row) ==
    IF Len(row) < 1 THEN <<>>
    ELSE LET k == FloatAt(row, 1)
         IN  IF k.exc = "none" THEN <<[time |-> row[1], kp |-> Num(k.v)]>>
             ELSE <<>>

\* The loop `for row in rows` over the rows at positions lo to hi, unfolded
\* by halves.
RECURSIVE KpReadings(_, _, _)
KpReadings(rows, lo, hi) ==
    IF lo > hi THEN <<>>
    ELSE IF lo = hi THEN KpReading(rows[lo])
    ELSE LET mid == (lo + hi) \div 2
         IN  KpReadings(rows, lo, mid) \o KpReadings(rows, mid + 1, hi)

\* readings[:24] in place of readings[-24:]
KpHistoryOldest(readings) ==
    IF Len(readings) <= MaxHist THEN readings ELSE SubSeq(readings, 1, MaxHist)

KpHistory(readings) == LastN(readings, MaxHist)

parse_kp(kp_raw) ==
    IF ~Truthy(kp_raw) THEN KpDefault
    ELSE LET readings == KpReadings(kp_raw.rows, 2, Len(kp_raw.rows))
         IN  IF Len(readings) > 0
             THEN [current |-> readings[Len(readings)].kp,
                   history |-> KpHistory(readings)]
             ELSE KpDefault

InitKp ==
    /\ \E g \in Shapes(KpKinds, MaxHist) : arg = Table("kp", g)
    /\ ret = Pending
    /\ now = 0 /\ cacheFile = Missing /\ last = Idle

CallKp ==
    /\ ~ret.done
    /\ ret' = [done |-> TRUE, val |-> parse_kp(arg)]
    /\ UNCHANGED <<arg, now, cacheFile, last>>

SpecKp == InitKp /\ [][CallKp]_vars

\* The Kp rows whose value converts to a number.
ReadableKp(raw) ==
    {i \in DataRows(raw) : FloatAt(raw.rows[i], 1).exc = "none"}

AuroraTable ==
    << <<9, "Equatorial regions (< 40°)">>,
       <<8, "Mid-latitudes (< 45°)">>,
       <<7, "Mid-latitudes (< 50°)">>,
       <<6, "Mid-latitudes (< 55°)">>,
       <<5, "Mid-latitudes (< 60°)">>,
       <<4, "High latitudes (< 65°)">>,
       <<3, "High latitudes (< 65°)">>,
       <<2, "Sub-auroral zone (> 65°)">>,
       <<1, "Polar regions only (> 70°)">>,
       <<0, "Not visible">> >>

\* kp > threshold in place of kp >= threshold
StrictlyAbove(kp, threshold) == kp.v > 4 * threshold

\* kp >= threshold, kp = q/4.
AtLeast(kp, threshold) == kp.v >= 4 * threshold

\* The loop over the table from entry k on; the latitude is in whole units.
RECURSIVE AuroraScan(_, _)
AuroraScan(kp, k) ==
    IF k > Len(AuroraTable) THEN [label |-> "Not visible", latitude |-> Null]
    ELSE IF AtLeast(kp, AuroraTable[k][1])
         THEN [label |-> AuroraTable[k][2], latitude |-> Num(AuroraTable[k][1])]
         ELSE AuroraScan(kp, k + 1)

aurora_visibility(kp) ==
    IF kp = Null THEN [label |-> "Unknown", latitude |-> Null]
    ELSE AuroraScan(kp, 1)

KpSpan == 8     \* quarters of Kp generated below 0 and above 9

InitAurora ==
    /\ arg \in {Null} \cup {Num(q) : q \in (0 - KpSpan)..(4 * 9 + KpSpan)}
    /\ ret = Pending
    /\ now = 0 /\ cacheFile = Missing /\ last = Idle

CallAurora ==
    /\ ~ret.done
    /\ ret' = [done |-> TRUE, val |-> aurora_visibility(arg)]
    /\ UNCHANGED <<arg, now, cacheFile, last>>

SpecAurora == InitAurora /\ [][CallAurora]_vars

\* C7: a numeric Kp gets the label of the highest threshold of 9..0 that is
\* <= Kp, with that threshold as latitude (Kp = 7: "Mid-latitudes (< 50°)",
\* 7); an absent Kp gets "Unknown" and a Kp below 0 "Not visible", both with
\* a null latitude.
C7_AuroraLookup ==
    ret.done =>
        /\ arg = Null => ret.val = [label |-> "Unknown", latitude |-> Null]
        /\ (arg # Null /\ arg.v < 0) =>
               ret.val = [label |-> "Not visible", latitude |-> Null]
        /\ (arg # Null /\ arg.v >= 0) =>
               LET th == MaxOf({t \in 0..9 : 4 * t <= arg.v})
               IN  /\ ret.val.latitude = Num(th)
                   /\ \E k \in 1..Len(AuroraTable) :
                          /\ AuroraTable[k][1] = th
                          /\ AuroraTable[k][2] = ret.val.label
        /\ arg = Num(28) =>
               ret.val = [label |-> "Mid-latitudes (< 50°)", latitude |-> Num(7)]

\* A Kp strictly between two thresholds has been mapped to the lower one.
C7_Witness ==
    /\ ret.done
    /\ arg = Num(31)
    /\ ret.val.latitude = Num(7)

\* ----------------------------------------------------------- parse_scales

\* A dict of the scales endpoint is a record over every key it may hold; the
\* value NoKey marks a key the dict lacks, NoEntry an entry it lacks.
NoKey   == "<no key>"
NoEntry == [has |-> FALSE, Scale |-> NoKey, Text |-> NoKey]
Entry(scale, text) == [has |-> TRUE, Scale |-> scale, Text |-> text]

ScaleKeys == {"G", "S", "R"}

\* {} as the dict of one lookback period.
NoPeriod == [k \in ScaleKeys |-> NoEntry]

\* entry.get(key, default), and current.get(key, {}).
StrGet(value, default) == IF value = NoKey THEN default ELSE value

ScalesDefault ==
    [G |-> [scale |-> "G0", label |-> "Quiet"],
     S |-> [scale |-> "S0", label |-> "None"],
     R |-> [scale |-> "R0", label |-> "None"]]

\* `not scales_raw`: None, or a dict without keys.
ScalesFalsy(scales_raw) == ~scales_raw.some \/ scales_raw.periods = {}

\* scales_raw.get("0", {})
CurrentPeriod(scales_raw) ==
    IF "0" \in scales_raw.periods THEN scales_raw.current ELSE NoPeriod

\* The body of `for key in ["G", "S", "R"]`.
ScaleOf(current, key) ==
    [scale |-> StrGet(current[key].Scale, key \o "0"),
     label |-> StrGet(current[key].Text, "None")]

\* parse_scales building its result from the entries the period holds only.
ScalesOfHeldEntries(scales_raw) ==
    IF ScalesFalsy(scales_raw) THEN ScalesDefault
    ELSE LET current == CurrentPeriod(scales_raw)
         IN  [key \in {k \in ScaleKeys : current[k].has} |-> ScaleOf(current, key)]

parse_scales(scales_raw) ==
    IF ScalesFalsy(scales_raw) THEN ScalesDefault
    ELSE LET current == CurrentPeriod(scales_raw)
         IN  [key \in ScaleKeys |-> ScaleOf(current, key)]

\* The entries a period may hold for one key; "<null>" is a JSON null.
EntryInputs ==
    {NoEntry} \cup
    {Entry(sc, tx) : sc \in {NoKey, "2", "<null>"}, tx \in {NoKey, "Moderate"}}

\* The responses of the scales endpoint: None, or a dict keyed by lookback
\* period ("0" is the current one) whose current period is `current`.
ScalesInputs ==
    {[some |-> FALSE, periods |-> {}, current |-> NoPeriod]} \cup
    {[some |-> TRUE, periods |-> ps, current |-> IF "0" \in ps THEN c ELSE NoPeriod] :
        ps \in SUBSET {"0", "1"}, c \in [ScaleKeys -> EntryInputs]}

InitScales ==
    /\ arg \in ScalesInputs
    /\ ret = Pending
    /\ now = 0 /\ cacheFile = Missing /\ last = Idle

CallScales ==
    /\ ~ret.done
    /\ ret' = [done |-> TRUE, val |-> parse_scales(arg)]
    /\ UNCHANGED <<arg, now, cacheFile, last>>

SpecScales == InitScales /\ [][CallScales]_vars

\* C8: the result has exactly the keys G, S and R, each with a scale and a
\* label; an entry (or a field of it) the input lacks is defaulted to
\* "<Key>0" / "None", a field it holds is kept, and an absent or empty input
\* gives G0/"Quiet", S0/"None", R0/"None".
C8_ScalesKeys ==
    ret.done =>
        /\ DOMAIN ret.val = {"G", "S", "R"}
        /\ \A key \in {"G", "S", "R"} : DOMAIN ret.val[key] = {"scale", "label"}
        /\ (~arg.some \/ arg.periods = {}) =>
               /\ ret.val.G = [scale |-> "G0", label |-> "Quiet"]
               /\ ret.val.S = [scale |-> "S0", label |-> "None"]
               /\ ret.val.R = [scale |-> "R0", label |-> "None"]
        /\ (arg.some /\ arg.periods # {}) =>
               \A key \in {"G", "S", "R"} :
                   LET e == IF "0" \in arg.periods THEN arg.current[key] ELSE NoEntry
                   IN  /\ ret.val[key].scale =
                              (IF e.Scale = NoKey THEN key \o "0" ELSE e.Scale)
                       /\ ret.val[key].label =
                              (IF e.Text = NoKey THEN "None" ELSE e.Text)

\* A current period holding G only, and S and R defaulted, has been parsed.
C8_Witness ==
    /\ ret.done
    /\ arg.some /\ "0" \in arg.periods
    /\ arg.current.G = Entry("2", "Moderate")
    /\ ~arg.current.S.has /\ ~arg.current.R.has
    /\ ret.val.G.scale = "2"
    /\ ret.val.S = [scale |-> "S0", label |-> "None"]

\* ----------------------------------------------------------- parse_alerts

\* A line of a bulletin is a sequence of words; a keyword or a boilerplate
\* prefix is one word, "_" is white space, and a line starts with a prefix
\* when its first word is that prefix. The empty text "" is <<>>.
HeadlineWords == {"WARNING:", "ALERT:", "WATCH:", "SUMMARY:", "CONTINUED"}
BoilerWords   == {"Space Weather", "Serial", "Issue Time", "NOAA"}
ImpactsWord   == "Potential Impacts:"

AlertLimit == 5

\* line.strip()
RECURSIVE Strip(_)
Strip(line) ==
    IF Len(line) = 0 THEN line
    ELSE IF line[1] = "_" THEN Strip(Tail(line))
    ELSE IF line[Len(line)] = "_" THEN Strip(SubSeq(line, 1, Len(line) - 1))
    ELSE line

StartsWith(line, words) == Len(line) > 0 /\ line[1] \in words

\* line.replace(word, "")
Remove(line, word) == SelectSeq(line, LAMBDA w : w # word)

\* The body of the first loop over raw.splitlines(), on the line `raw_line`.
AlertLine(raw_line, st) ==
    LET line == Strip(raw_line)
        h    == IF st.headline = <<>> /\ StartsWith(line, HeadlineWords)
                THEN line ELSE st.headline
        im   == IF StartsWith(line, {ImpactsWord})
                THEN Strip(Remove(line, ImpactsWord)) ELSE st.impacts
    IN  [headline |-> h, impacts |-> im]

RECURSIVE AlertLines(_, _, _)
AlertLines(lines, k, st) ==
    IF k > Len(lines) THEN st
    ELSE AlertLines(lines, k + 1, AlertLine(lines[k], st))

\* The fallback loop: the first non-empty line that starts with no
\* boilerplate prefix, "" when there is none.
RECURSIVE FallbackHeadline(_, _)
FallbackHeadline(lines, k) ==
    IF k > Len(lines) THEN <<>>
    ELSE LET line == Strip(lines[k])
         IN  IF Len(line) > 0 /\ ~StartsWith(line, BoilerWords) THEN line
             ELSE FallbackHeadline(lines, k + 1)

\* The body of `for item in alerts_raw[:5]`.
AlertOf(item) ==
    LET st == AlertLines(item.message, 1, [headline |-> <<>>, impacts |-> <<>>])
    IN  [product_id |-> item.product_id,
         issue_time |-> item.issue_datetime,
         headline   |-> IF st.headline = <<>>
                        THEN FallbackHeadline(item.message, 1) ELSE st.headline,
         impacts    |-> st.impacts]

\* seq[:n]
FirstN(seq, n) == IF Len(seq) <= n THEN seq ELSE SubSeq(seq, 1, n)

parse_alerts(alerts_raw) ==
    IF ~Truthy(alerts_raw) THEN <<>>
    ELSE LET items == FirstN(alerts_raw.rows, AlertLimit)
         IN  [k \in 1..Len(items) |-> AlertOf(items[k])]

MaxLines == 3       \* lines of a generated bulletin
ExtraAlerts == 1    \* alerts generated beyond the limit of 5

LineInputs ==
    { <<"WARNING:", "a">>,
      <<"ALERT:", "b">>,
      <<"Potential Impacts:", "a">>,
      <<"Potential Impacts:", "b">>,
      <<"_", "Potential Impacts:", "_", "c", "_">>,
      <<"Space Weather", "a">>,
      <<"b">>,
      <<>> }

\* A list of n alerts that carry the bulletin `lines`; alert k has product id k.
AlertList(lines, n) ==
    Present([k \in 1..n |->
                [message |-> lines, product_id |-> k, issue_datetime |-> k]])

InitAlerts ==
    /\ \/ arg = Absent
       \/ \E lines \in SeqsUpTo(LineInputs, MaxLines),
             n \in 0..(AlertLimit + ExtraAlerts) : arg = AlertList(lines, n)
    /\ ret = Pending
    /\ now = 0 /\ cacheFile = Missing /\ last = Idle

CallAlerts ==
    /\ ~ret.done
    /\ ret' = [done |-> TRUE, val |-> parse_alerts(arg)]
    /\ UNCHANGED <<arg, now, cacheFile, last>>

SpecAlerts == InitAlerts /\ [][CallAlerts]_vars

\* The positions of the lines of a bulletin that begin with "Potential Impacts:".
ImpactLines(lines) ==
    {k \in 1..Len(lines) : StartsWith(Strip(lines[k]), {ImpactsWord})}

MinOf(S) == CHOOSE m \in S : \A x \in S : m <= x

\* C9 (as claimed): the impacts of every alert processed are the first line
\* of its message that begins with "Potential Impacts:", that prefix
\* stripped, also when several lines begin so; "" when none does.
C9_ImpactsFromFirstLine ==
    ret.done =>
        \A k \in 1..Len(ret.val) :
            LET lines == arg.rows[k].message
                at    == ImpactLines(lines)
            IN  ret.val[k].impacts =
                    IF at = {} THEN <<>>
                    ELSE Strip(Tail(Strip(lines[MinOf(at)])))

\* -------------------------------------------------------------- fetch_all

Endpoints == {"plasma", "mag", "kp", "scales", "alerts"}

ScalesAbsent == [some |-> FALSE, periods |-> {}, current |-> NoPeriod]

\* fetch_json(ENDPOINTS[e]) when the endpoints `up` answer with the contents
\* of `feed` and the others fail: the parsed JSON, or None.
fetch_json(feed, up, e) ==
    IF e \in up THEN feed[e]
    ELSE IF e = "scales" THEN ScalesAbsent ELSE Absent

\* datetime.now(timezone.utc): an aware datetime.  isoformat(): its text.
UtcNow(clock) == [at |-> clock, aware |-> TRUE]
IsoFormat(dt) == [t |-> "iso", at |-> dt.at, tz |-> dt.aware]

fetch_all(feed, up, clock) ==
    LET plasma_raw == fetch_json(feed, up, "plasma")
        mag_raw    == fetch_json(feed, up, "mag")
        kp_raw     == fetch_json(feed, up, "kp")
        scales_raw == fetch_json(feed, up, "scales")
        alerts_raw == fetch_json(feed, up, "alerts")
        kp         == parse_kp(kp_raw)
    IN  [fetched_at |-> IsoFormat(UtcNow(clock)),
         solar_wind |-> parse_solar_wind(plasma_raw, mag_raw),
         kp         |-> kp,
         scales     |-> parse_scales(scales_raw),
         aurora     |-> aurora_visibility(kp.current),
         alerts     |-> parse_alerts(alerts_raw)]

\* Two contents of the five feeds.
FeedA ==
    [plasma |-> Present(<<Header, PlasmaRow("ok1", 2), PlasmaRow("mixed", 3),
                          PlasmaRow("nospeed", 4)>>),
     mag    |-> Present(<<Header, MagRow("ok", 2), MagRow("nobt", 3)>>),
     kp     |-> Present(<<Header, KpRow("k1", 2), KpRow("k2", 3), KpRow("null", 4)>>),
     scales |-> [some |-> TRUE, periods |-> {"0", "1"},
                 current |-> [G |-> Entry("2", "Moderate"), S |-> NoEntry,
                              R |-> Entry(NoKey, "Moderate")]],
     alerts |-> AlertList(<< <<"Space Weather", "a">>, <<"WARNING:", "a">>,
                             <<"Potential Impacts:", "b">> >>, 2)]

FeedB ==
    [plasma |-> Present(<<Header, PlasmaRow("calm", 2), PlasmaRow("nodens", 3)>>),
     mag    |-> Present(<<Header, MagRow("nobz", 2), MagRow("short", 3)>>),
     kp     |-> Present(<<Header, KpRow("mixed", 2), KpRow("short", 3)>>),
     scales |-> [some |-> TRUE, periods |-> {"1"}, current |-> NoPeriod],
     alerts |-> AlertList(<< <<"b">>, <<>> >>, 1)]

Feeds == {FeedA, FeedB}

InitFetchAll ==
    /\ \E f \in Feeds, up \in SUBSET Endpoints : arg = [feed |-> f, up |-> up]
    /\ ret = Pending
    /\ now \in {0, 1}
    /\ cacheFile = Missing /\ last = Idle

CallFetchAll ==
    /\ ~ret.done
    /\ ret' = [done |-> TRUE, val |-> fetch_all(arg.feed, arg.up, now)]
    /\ UNCHANGED <<arg, now, cacheFile, last>>

SpecFetchAll == InitFetchAll /\ [][CallFetchAll]_vars

\* C5: whichever endpoints are absent, fetch_all returns a payload with the
\* six keys; a sub-structure whose endpoint is absent is the parser's
\* default, and one whose endpoint is present is what it is when all five
\* endpoints are present.
C5_AbsentEndpointsDefaulted ==
    ret.done =>
        LET got  == ret.val
            full == fetch_all(arg.feed, Endpoints, now)
            has(e) == e \in arg.up
        IN  /\ DOMAIN got =
                   {"fetched_at", "solar_wind", "kp", "scales", "aurora", "alerts"}
            /\ got.fetched_at = [t |-> "iso", at |-> now, tz |-> TRUE]
            /\ got.kp = IF has("kp") THEN full.kp
                        ELSE [current |-> Null, history |-> <<>>]
            /\ got.aurora = IF has("kp") THEN full.aurora
                            ELSE [label |-> "Unknown", latitude |-> Null]
            /\ got.scales =
                   IF has("scales") THEN full.scales
                   ELSE [G |-> [scale |-> "G0", label |-> "Quiet"],
                         S |-> [scale |-> "S0", label |-> "None"],
                         R |-> [scale |-> "R0", label |-> "None"]]
            /\ got.alerts = IF has("alerts") THEN full.alerts ELSE <<>>
            /\ \A k \in {"speed", "density", "timestamp"} :
                   got.solar_wind[k] =
                       IF has("plasma") THEN full.solar_wind[k] ELSE Null
            /\ got.solar_wind.timeseries =
                   IF has("plasma") THEN full.solar_wind.timeseries ELSE <<>>
            /\ \A k \in {"bz", "bt"} :
                   got.solar_wind[k] = IF has("mag") THEN full.solar_wind[k] ELSE Null

\* The plasma and kp endpoints failed and the other three answered.
C5_Witness ==
    /\ ret.done
    /\ arg.feed = FeedA
    /\ arg.up = {"mag", "scales", "alerts"}
    /\ ret.val.solar_wind.speed = Null
    /\ ret.val.solar_wind.bz # Null
    /\ ret.val.aurora.label = "Unknown"
    /\ Len(ret.val.alerts) = 2

\* ------------------------------------------------------------ cache store

\* The cache file: missing, the JSON text of a payload, or the cut-off text
\* that a failed json.dump leaves behind (open(..., "w") has emptied the
\* file by then).
Truncated    == [kind |-> "truncated"]
JsonText(doc) == [kind |-> "json", doc |-> doc]

\* write_cache(payload): the file it leaves, and whether it raised OSError
\* (`disk` is "full" when the write fails).
write_cache(payload, disk) ==
    IF disk = "full" THEN [file |-> Truncated, exc |-> "OSError"]
    ELSE [file |-> JsonText(payload), exc |-> "none"]

\* load_cache(): the payload, or None for a missing or malformed file.
load_cache(file) ==
    IF file.kind = "json" THEN [some |-> TRUE, doc |-> file.doc]
    ELSE [some |-> FALSE, doc |-> Null]

\* --------------------------------------------------------- cache_is_stale

MaxAge == 120

\* The values of payload["fetched_at"] besides the ISO text of a datetime:
\* no such key, null, a number, and text that is no ISO timestamp.
NoFetchedAt   == [t |-> "nokey", at |-> 0, tz |-> FALSE]
NullFetchedAt == [t |-> "null", at |-> 0, tz |-> FALSE]
NumFetchedAt  == [t |-> "num", at |-> 0, tz |-> FALSE]
TextFetchedAt == [t |-> "text", at |-> 0, tz |-> FALSE]

\* datetime.fromisoformat(x)
FromIsoFormat(x) ==
    CASE x.t = "iso"  -> [exc |-> "none", at |-> x.at, aware |-> x.tz]
      [] x.t = "text" -> [exc |-> "ValueError", at |-> 0, aware |-> FALSE]
      [] OTHER        -> [exc |-> "TypeError", at |-> 0, aware |-> FALSE]

\* The exceptions the handler of cache_is_stale catches.
StaleCaught == {"KeyError", "ValueError"}

\* What the try block of cache_is_stale does: the value it returns, or the
\* exception it raises. Subtracting a naive datetime from an aware one raises
\* TypeError.
StaleTry(fetched_at, clock) ==
    IF fetched_at.t = "nokey" THEN [exc |-> "KeyError", v |-> FALSE]
    ELSE LET dt == FromIsoFormat(fetched_at)
         IN  IF dt.exc # "none" THEN [exc |-> dt.exc, v |-> FALSE]
             ELSE IF ~dt.aware THEN [exc |-> "TypeError", v |-> FALSE]
             ELSE [exc |-> "none", v |-> (clock - dt.at) * 60 > MaxAge * 60]

cache_is_stale(payload, clock) ==
    LET r == StaleTry(payload.fetched_at, clock)
    IN  IF r.exc \in StaleCaught THEN [exc |-> "none", v |-> TRUE] ELSE r

StaleSpan == 3      \* minutes generated around the threshold

InitStale ==
    /\ \E f \in {NoFetchedAt, NullFetchedAt, NumFetchedAt, TextFetchedAt} \cup
                {[t |-> "iso", at |-> a, tz |-> z] : a \in 0..StaleSpan, z \in BOOLEAN} :
           arg = [fetched_at |-> f]
    /\ now \in {0} \cup (MaxAge - 1)..(MaxAge + 1 + StaleSpan)
    /\ ret = Pending
    /\ cacheFile = Missing /\ last = Idle

CallStale ==
    /\ ~ret.done
    /\ ret' = [done |-> TRUE, val |-> cache_is_stale(arg, now)]
    /\ UNCHANGED <<arg, now, cacheFile, last>>

SpecStale == InitStale /\ [][CallStale]_vars

\* C2 (as claimed): cache_is_stale never raises, and returns True for a
\* fetched_at that is missing, null, no text, no ISO text, or a timestamp
\* without a time zone.
C2_StaleNeverRaises ==
    ret.done =>
        /\ ret.val.exc = "none"
        /\ (arg.fetched_at.t # "iso" \/ ~arg.fetched_at.tz) => ret.val.v

\* ------------------------------------------------- the routes and the script

MaxClock == 125     \* the clock stops here

\* The delays (minutes) between two runs: around half the freshness
\* threshold, so that two of them put an age on either side of it.
TickSteps == {MaxAge \div 2 - 1, MaxAge \div 2, MaxAge \div 2 + 1}

\* Which endpoints answer during one fetch cycle.
NetInputs == {Endpoints, {}, Endpoints \ {"kp"}, {"plasma", "scales"}}

DiskInputs == {"ok", "full"}

\* The structure /space renders when the live fetch failed ("--" stands for
\* the dash of the source).
Fallback ==
    [fetched_at |-> NullFetchedAt,
     solar_wind |-> [speed |-> Null, density |-> Null, bz |-> Null, bt |-> Null],
     kp         |-> [current |-> Null, history |-> <<>>],
     scales     |-> [G |-> [scale |-> "--", label |-> "Unavailable"],
                     S |-> [scale |-> "--", label |-> "Unavailable"],
                     R |-> [scale |-> "--", label |-> "Unavailable"]],
     aurora     |-> [label |-> "Unavailable", latitude |-> Null],
     alerts     |-> <<>>]

\* The condition of /space without the staleness test.
NeedsFetchWhenMissing(data, clock) == [exc |-> "none", v |-> ~data.some]

\* The condition of /space: `data is None or cache_is_stale(data)`; the
\* second operand is evaluated only when the first is false, and may raise.
NeedsFetch(data, clock) ==
    IF ~data.some THEN [exc |-> "none", v |-> TRUE]
    ELSE cache_is_stale(data.doc, clock)

\* What a run leaves in `last`: the operation, the clock at its start, whether
\* fetch_all and write_cache were called, the HTTP status (0 for the script),
\* and what was rendered or returned.
Ran(op, fetched, wrote, status, body) ==
    [op |-> op, at |-> now, fetched |-> fetched, wrote |-> wrote,
     status |-> status, body |-> body]

Init ==
    /\ arg = Null /\ ret = Pending
    /\ now = 0
    /\ cacheFile = Missing
    /\ last = Idle

Tick ==
    /\ \E d \in TickSteps : now + d <= MaxClock /\ now' = now + d
    /\ UNCHANGED <<arg, ret, cacheFile, last>>

\* GET /space
Space ==
    /\ \E f \in Feeds, up \in NetInputs, disk \in DiskInputs :
          LET data  == load_cache(cacheFile)
              need  == NeedsFetch(data, now)
              fresh == fetch_all(f, up, now)
              w     == write_cache(fresh, disk)
          IN  IF need.exc # "none"
              THEN /\ last' = Ran("space", FALSE, FALSE, 500, Null)
                   /\ UNCHANGED cacheFile
              ELSE IF need.v
              THEN /\ cacheFile' = w.file
                   /\ last' = Ran("space", TRUE, TRUE, 200,
                                  IF w.exc = "none" THEN fresh ELSE Fallback)
              ELSE /\ last' = Ran("space", FALSE, FALSE, 200, data.doc)
                   /\ UNCHANGED cacheFile
    /\ UNCHANGED <<arg, ret, now>>

\* POST /space/refresh
SpaceRefresh ==
    /\ \E f \in Feeds, up \in NetInputs, disk \in DiskInputs :
          LET data == fetch_all(f, up, now)
              w    == write_cache(data, disk)
          IN  /\ cacheFile' = w.file
              /\ last' = IF w.exc = "none"
                         THEN Ran("refresh", TRUE, TRUE, 200,
                                  [ok |-> TRUE,
                                   fetched_at |-> data.fetched_at,
                                   solar_wind_speed |-> data.solar_wind.speed,
                                   bz |-> data.solar_wind.bz,
                                   kp |-> data.kp.current,
                                   g_scale |-> data.scales.G.scale])
                         ELSE Ran("refresh", TRUE, TRUE, 500,
                                  [ok |-> FALSE, error |-> w.exc])
    /\ UNCHANGED <<arg, ret, now>>

\* python space_weather.py, the scheduled task
Main ==
    /\ \E f \in Feeds, up \in NetInputs, disk \in DiskInputs :
          LET payload == fetch_all(f, up, now)
              w       == write_cache(payload, disk)
          IN  /\ cacheFile' = w.file
              /\ last' = Ran("main", TRUE, TRUE, 0, [exc |-> w.exc])
    /\ UNCHANGED <<arg, ret, now>>

Next == Tick \/ Space \/ SpaceRefresh \/ Main

Spec == Init /\ [][Next]_vars

\* The cache as /space finds it: no payload to read, or the age of the
\* payload in minutes.
CacheUnreadable == cacheFile.kind \in {"missing", "truncated"}
CacheAge        == now - cacheFile.doc.fetched_at.at

\* C4: /space runs the live fetch (fetch_all, then write_cache) exactly when
\* the cache is missing or unparseable or its payload is stale; a present
\* and fresh cache is rendered as read, with neither call made and the file
\* left as it is.
C4_FetchOnlyWhenAbsentOrStale ==
    [][Space =>
          LET live == CacheUnreadable \/ CacheAge > MaxAge
          IN  /\ last'.fetched <=> live
              /\ last'.wrote <=> live
              /\ ~live => /\ last'.body = cacheFile.doc
                          /\ last'.status = 200
                          /\ cacheFile' = cacheFile]_vars

\* /space has served a cache of exactly the threshold age without fetching,
\* and the file is still what it served.
C4_Witness ==
    /\ last.op = "space"
    /\ ~last.fetched
    /\ ~last.wrote
    /\ last.at = now
    /\ cacheFile.kind = "json"
    /\ CacheAge = MaxAge
    /\ last.body = cacheFile.doc

====
